---------------------------- MODULE Spec2Model ----------------------------
(***************************************************************************)
(* A model of the Doorbell kiosk (src/activate_this.py, the script that    *)
(* src/auto_sync_and_run.py launches; src/almost.py is an earlier draft of  *)
(* the same screen).                                                        *)
(*                                                                          *)
(* Text is a sequence of one-character strings, so that strip(), the CSV    *)
(* writer and the CSV reader can be modelled by what they do.  The store    *)
(* is the file doorbell_log.csv; the read cache is the st.cache_data entry  *)
(* of load_log, which every session of the server shares.                   *)
(***************************************************************************)
EXTENDS Integers, Sequences, FiniteSets, TLC

VARIABLES
    file,           \* doorbell_log.csv: missing, unreadable, or CSV text rows
    cache,          \* the st.cache_data entry of load_log()
    lock,           \* holder of the cache's compute lock (0: free)
    pc,             \* SpecLog: each session's position in load_log/append_log/reset
    ldf,            \* SpecLog: each session's local DataFrame (df)
    lrow,           \* SpecLog: the row_dict each session is appending
    done,           \* SpecLog: rows whose append_log has returned (since the last reset)
    must,           \* SpecLog: rows that the query a session has in flight must observe
    result,         \* SpecLog: what each session's last completed query returned
    ss,             \* st.session_state of the kiosk session
    widgets,        \* front-end widget values: camera photo, admin "Shift mode" radio
    now,            \* the wall clock, minutes since midnight
    REQUIRE_PHOTO,  \* the "photo required" configuration flag
    pinned,         \* the shift the admin "Shift mode" radio last pinned ("none": Auto or never)
    ui,             \* what the last script pass did: messages shown, row appended
    probe,          \* SpecShift: a window list, a time of day, detect_shift's answer
    dash            \* SpecQuery: a log frame, the dashboard's filters, the rows it keeps

vars == <<file, cache, lock, pc, ldf, lrow, done, must, result,
          ss, widgets, now, REQUIRE_PHOTO, pinned, ui, probe, dash>>
storeVars == <<file, cache, lock>>
logVars == <<pc, ldf, lrow, done, must, result>>
kioskVars == <<ss, widgets, now, REQUIRE_PHOTO, pinned, ui, probe, dash>>

---------------------------------------------------------------------------
(* Text *)

Digits == <<"0", "1", "2", "3", "4", "5", "6", "7", "8", "9">>

IsDigit(c) == \E i \in 1..10 : Digits[i] = c

DigitVal(c) == CHOOSE i \in 0..9 : Digits[i + 1] = c

Front(s) == SubSeq(s, 1, Len(s) - 1)

Last(s) == s[Len(s)]

\* str.strip(): leading and trailing whitespace removed
RECURSIVE lstrip(_)
lstrip(s) == IF s # <<>> /\ Head(s) = " " THEN lstrip(Tail(s)) ELSE s

RECURSIVE rstrip(_)
rstrip(s) == IF s # <<>> /\ Last(s) = " " THEN rstrip(Front(s)) ELSE s

strip(s) == rstrip(lstrip(s))

RECURSIVE ParseInt(_)
ParseInt(t) == IF t = <<>> THEN 0 ELSE ParseInt(Front(t)) * 10 + DigitVal(Last(t))

RECURSIVE IntText(_)
IntText(n) == IF n < 10 THEN <<Digits[n + 1]>>
              ELSE IntText(n \div 10) \o <<Digits[(n % 10) + 1]>>

\* two-digit field of a formatted time
Fmt2(n) == <<Digits[(n \div 10) + 1], Digits[(n % 10) + 1]>>

\* datetime.now().isoformat(timespec="seconds"), the time-of-day part HH:MM
isoformat(t) == Fmt2(t \div 60) \o <<":">> \o Fmt2(t % 60)

---------------------------------------------------------------------------
(* The CSV store and the DataFrame read from it *)

cols == {"timestamp", "name", "username", "badge", "note", "shift", "photo"}

\* columns of a file written by the earlier draft (no photo column)
legacy_cols == cols \ {"photo"}

\* DataFrame cells: a str, NaN, an int64 or a float64 with an integral value
StrCell(t) == [t |-> "str", v |-> t]
NaN == [t |-> "nan", v |-> <<>>]
IntCell(t) == [t |-> "int", v |-> t]
FltCell(t) == [t |-> "flt", v |-> t]

\* the text to_csv writes for a cell (na_rep = "")
CellText(c) ==
    CASE c.t = "str" -> c.v
      [] c.t = "nan" -> <<>>
      [] c.t = "int" -> c.v
      [] c.t = "flt" -> c.v \o <<".", "0">>

\* pandas' default na_values, as far as the sampled texts reach
NaLiterals == {<<"n", "a", "n">>, <<"N", "A">>, <<"n", "u", "l", "l">>}

IsNAText(t) == t = <<>> \/ t \in NaLiterals

IsIntText(t) == t # <<>> /\ \A i \in 1..Len(t) : IsDigit(t[i])

IsFltText(t) ==
    /\ Len(t) >= 3
    /\ t[Len(t) - 1] = "."
    /\ t[Len(t)] = "0"
    /\ IsIntText(SubSeq(t, 1, Len(t) - 2))

\* the integral part of a numeric text, as int()/float() read and repr() writes it
Canon(t) == IF IsIntText(t) THEN IntText(ParseInt(t))
            ELSE IntText(ParseInt(SubSeq(t, 1, Len(t) - 2)))

\* read_csv's dtype of one column: int64 when every cell is an integer, float64
\* when every non-missing cell is numeric (or all are missing), object otherwise
ColumnKind(rows, c) ==
    LET n == Len(rows)
        present == {i \in 1..n : ~IsNAText(rows[i][c])}
    IN  IF present = {} THEN "flt"
        ELSE IF present = 1..n /\ \A i \in present : IsIntText(rows[i][c]) THEN "int"
        ELSE IF \A i \in present : IsIntText(rows[i][c]) \/ IsFltText(rows[i][c]) THEN "flt"
        ELSE "obj"

ParseCell(kind, t) ==
    IF IsNAText(t) THEN NaN
    ELSE CASE kind = "int" -> IntCell(Canon(t))
           [] kind = "flt" -> FltCell(Canon(t))
           [] kind = "obj" -> StrCell(t)

EmptyFrame == [cols |-> cols, rows |-> <<>>]

\* pd.read_csv(LOG_PATH) on a readable CSV file
read_csv(f) ==
    [cols |-> f.cols,
     rows |-> [i \in 1..Len(f.rows) |->
                 [c \in f.cols |-> ParseCell(ColumnKind(f.rows, c), f.rows[i][c])]]]

\* for c in cols: if c not in df.columns: df[c] = ""
Backfill(df) ==
    [cols |-> df.cols \cup cols,
     rows |-> [i \in 1..Len(df.rows) |->
                 [c \in df.cols \cup cols |->
                    IF c \in df.cols THEN df.rows[i][c] ELSE StrCell(<<>>)]]]

\* df.to_csv(LOG_PATH, index=False)
to_csv(df) ==
    [kind |-> "csv", cols |-> df.cols,
     rows |-> [i \in 1..Len(df.rows) |->
                 [c \in df.cols |-> CellText(df.rows[i][c])]]]

NoRow == [c \in cols |-> <<>>]

Missing == [kind |-> "missing", cols |-> {}, rows |-> <<>>]

\* a file read_csv raises on: zero bytes (EmptyDataError) or undecodable bytes
Unreadable == [kind |-> "unreadable", cols |-> {}, rows |-> <<>>]

\* the body of load_log(), run on a cache miss
\* load_log() with the columns forgotten in its empty frames
ReadStoreBare(f) ==
    IF f.kind \in {"missing", "unreadable"} THEN [cols |-> {}, rows |-> <<>>]
    ELSE Backfill(read_csv(f))

\* load_log() on a cache miss
ReadStore(f) ==
    IF f.kind = "missing" THEN EmptyFrame
    ELSE IF f.kind = "unreadable" THEN EmptyFrame
    ELSE Backfill(read_csv(f))

NoEntry == [hit |-> FALSE, df |-> EmptyFrame]

Entry(df) == [hit |-> TRUE, df |-> df]

\* what load_log() returns when no other session is inside it
load_log == IF cache.hit THEN cache.df ELSE ReadStore(file)

\* df.loc[len(df)] = row_dict
AddRow(df, row) == [df EXCEPT !.rows = Append(@, [c \in df.cols |-> StrCell(row[c])])]

---------------------------------------------------------------------------
(* Shifts *)

SHIFT_DEFS ==
    << <<"Day", <<"0", "6", ":", "0", "0">>, <<"1", "7", ":", "0", "0">> >>,
       <<"Night", <<"1", "7", ":", "3", "0">>, <<"0", "4", ":", "0", "0">> >> >>

\* _t("HH:MM"): the time of day, here in minutes since midnight
_t(hhmm) ==
    LET k == CHOOSE i \in 1..Len(hhmm) : hhmm[i] = ":"
    IN  ParseInt(SubSeq(hhmm, 1, k - 1)) * 60 + ParseInt(SubSeq(hhmm, k + 1, Len(hhmm)))

\* detect_shift with the end of a same-day window included
RECURSIVE detect_shift_end_included(_, _)
detect_shift_end_included(defs, tnow) ==
    IF defs = <<>> THEN "Unscheduled"
    ELSE LET name == Head(defs)[1]
             ts == _t(Head(defs)[2])
             te == _t(Head(defs)[3])
         IN  IF ts <= te
             THEN IF ts <= tnow /\ tnow <= te THEN name
                  ELSE detect_shift_end_included(Tail(defs), tnow)
             ELSE IF tnow >= ts \/ tnow < te THEN name
                  ELSE detect_shift_end_included(Tail(defs), tnow)

\* detect_shift with the overnight test written as a conjunction
RECURSIVE detect_shift_overnight_and(_, _)
detect_shift_overnight_and(defs, tnow) ==
    IF defs = <<>> THEN "Unscheduled"
    ELSE LET name == Head(defs)[1]
             ts == _t(Head(defs)[2])
             te == _t(Head(defs)[3])
         IN  IF ts <= te
             THEN IF ts <= tnow /\ tnow < te THEN name
                  ELSE detect_shift_overnight_and(Tail(defs), tnow)
             ELSE IF tnow >= ts /\ tnow < te THEN name
                  ELSE detect_shift_overnight_and(Tail(defs), tnow)

\* detect_shift's loop over the windows defs, for the time of day tnow
RECURSIVE detect_shift_in(_, _)
detect_shift_in(defs, tnow) ==
    IF defs = <<>> THEN "Unscheduled"
    ELSE LET name == Head(defs)[1]
             ts == _t(Head(defs)[2])
             te == _t(Head(defs)[3])
         IN  IF ts <= te
             THEN IF ts <= tnow /\ tnow < te THEN name
                  ELSE detect_shift_in(Tail(defs), tnow)
             ELSE IF tnow >= ts \/ tnow < te THEN name
                  ELSE detect_shift_in(Tail(defs), tnow)

detect_shift(tnow) == detect_shift_in(SHIFT_DEFS, tnow)

---------------------------------------------------------------------------
(* Bounds *)

\* windows in the lists that detect_shift is tried on
MaxWindows == 2

\* rows the store may hold before a further append is left out of the model
MaxLog == 2

\* characters the four fields may hold together before a further character
\* key is left out of SpecKeys
MaxText == 2

\* characters the Badge field may hold before a further character key is left
\* out of SpecBadge
MaxBadge == 5

---------------------------------------------------------------------------
(* SpecLog: two sessions of the server inside load_log(), append_log() and  *)
(* the "Reset log" button at once.  The sessions share the store and the    *)
(* st.cache_data entry; each step below is one I/O or cache call, and the   *)
(* calls of different sessions interleave freely.                           *)

Sessions == {1, 2}

\* void: a reset removed the store while this session's append was under way, so
\* the append's row is not counted among those a later reader must find
Idle == [op |-> "idle", at |-> "idle", void |-> FALSE]

At(s, op, at) == pc[s].op = op /\ pc[s].at = at

\* row_dicts the two sessions append: name-only rings that the CSV round trip
\* leaves as they are
RowOf(name) ==
    [timestamp |-> isoformat(360), name |-> name, username |-> <<>>, badge |-> <<>>,
     note |-> <<>>, shift |-> <<"Day">>, photo |-> <<>>]

LogRows == {RowOf(<<"a", "n", "n">>), RowOf(<<"b", "o", "b">>)}

\* the frame holds a row that is written out as row_dict's texts
Contains(df, row) ==
    \E i \in 1..Len(df.rows) : \A c \in cols : CellText(df.rows[i][c]) = row[c]

\* what a query returned: the rows it had to observe and did not, and whether
\* load_log read the file while another session had it open for writing
NoResult == [set |-> FALSE, missed |-> {}, torn |-> FALSE]

\* load_log() has returned df to session s
Loaded(s, df) ==
    IF pc[s].op = "query"
    THEN /\ pc' = [pc EXCEPT ![s] = Idle]
         /\ result' = [result EXCEPT ![s] =
                          [@ EXCEPT !.set = TRUE,
                                    !.missed = {e \in must[s] : ~Contains(df, e)}]]
         /\ ldf' = [ldf EXCEPT ![s] = EmptyFrame]
         /\ must' = [must EXCEPT ![s] = {}]
    ELSE /\ pc' = [pc EXCEPT ![s].at = "add"]
         /\ ldf' = [ldf EXCEPT ![s] = df]
         /\ UNCHANGED <<result, must>>

\* a dashboard or "Recent rings" read: load_log()
StartQuery(s) ==
    /\ pc[s] = Idle
    /\ pc' = [pc EXCEPT ![s] = [op |-> "query", at |-> "load", void |-> FALSE]]
    /\ must' = [must EXCEPT ![s] = done]
    /\ result' = [result EXCEPT ![s] = NoResult]
    /\ UNCHANGED <<file, cache, lock, ldf, lrow, done, kioskVars>>

\* append_log(row_dict) is called
StartAppend(s, row) ==
    /\ pc[s] = Idle
    /\ row \notin done
    /\ \A t \in Sessions : pc[t].op = "append" => lrow[t] # row
    /\ pc' = [pc EXCEPT ![s] = [op |-> "append", at |-> "load", void |-> FALSE]]
    /\ lrow' = [lrow EXCEPT ![s] = row]
    /\ UNCHANGED <<file, cache, lock, ldf, done, must, result, kioskVars>>

\* load_log(): the cache lookup; a hit returns the cached frame, a miss takes the
\* entry's compute lock (and finds the cache still empty)
LoadLookup(s) ==
    /\ pc[s].at = "load"
    /\ IF cache.hit
       THEN Loaded(s, cache.df) /\ UNCHANGED lock
       ELSE /\ lock = 0
            /\ lock' = s
            /\ pc' = [pc EXCEPT ![s].at = "compute"]
            /\ UNCHANGED <<ldf, result, must>>
    /\ UNCHANGED <<file, cache, lrow, done, kioskVars>>

\* load_log(): the function body reads the file
LoadCompute(s) ==
    /\ pc[s].at = "compute"
    /\ ldf' = [ldf EXCEPT ![s] = ReadStore(file)]
    /\ result' = [result EXCEPT ![s].torn =
                      file.kind = "unreadable" /\ \E t \in Sessions : pc[t].at = "write"]
    /\ pc' = [pc EXCEPT ![s].at = "store"]
    /\ UNCHANGED <<file, cache, lock, lrow, done, must, kioskVars>>

\* load_log(): the value is written to the cache and the lock released
LoadStore(s) ==
    /\ pc[s].at = "store"
    /\ cache' = Entry(ldf[s])
    /\ lock' = 0
    /\ Loaded(s, ldf[s])
    /\ UNCHANGED <<file, lrow, done, kioskVars>>

\* df.loc[len(df)] = row_dict, then to_csv opens the file for writing: it now
\* exists with zero bytes
AppendOpen(s) ==
    /\ At(s, "append", "add")
    /\ Len(ldf[s].rows) < MaxLog
    /\ ldf' = [ldf EXCEPT ![s] = AddRow(@, lrow[s])]
    /\ file' = Unreadable
    /\ pc' = [pc EXCEPT ![s].at = "write"]
    /\ UNCHANGED <<cache, lock, lrow, done, must, result, kioskVars>>

\* to_csv writes the frame and closes the file (of two writers the later wins)
AppendWrite(s) ==
    /\ At(s, "append", "write")
    /\ file' = to_csv(ldf[s])
    /\ pc' = [pc EXCEPT ![s].at = "clear"]
    /\ UNCHANGED <<cache, lock, ldf, lrow, done, must, result, kioskVars>>

\* load_log.clear(), and append_log returns
AppendClear(s) ==
    /\ At(s, "append", "clear")
    /\ cache' = NoEntry
    /\ done' = IF pc[s].void THEN done ELSE done \cup {lrow[s]}
    /\ pc' = [pc EXCEPT ![s] = Idle]
    /\ ldf' = [ldf EXCEPT ![s] = EmptyFrame]
    /\ lrow' = [lrow EXCEPT ![s] = NoRow]
    /\ UNCHANGED <<file, lock, must, result, kioskVars>>

\* the "Reset log (start fresh)" button is handled
StartReset(s) ==
    /\ pc[s] = Idle
    /\ pc' = [pc EXCEPT ![s] = [op |-> "reset", at |-> "remove", void |-> FALSE]]
    /\ UNCHANGED <<file, cache, lock, ldf, lrow, done, must, result, kioskVars>>

\* if os.path.exists(LOG_PATH): os.remove(LOG_PATH)
ResetRemove(s) ==
    /\ At(s, "reset", "remove")
    /\ IF file.kind # "missing" THEN file' = Missing ELSE UNCHANGED file
    /\ pc' = [t \in Sessions |->
                IF t = s THEN (IF file.kind # "missing" THEN [pc[s] EXCEPT !.at = "clear"]
                               ELSE Idle)
                ELSE IF pc[t].op = "append" THEN [pc[t] EXCEPT !.void = TRUE]
                ELSE pc[t]]
    /\ done' = {}
    /\ must' = [t \in Sessions |-> {}]
    /\ UNCHANGED <<cache, lock, ldf, lrow, result, kioskVars>>

\* ...; load_log.clear()
ResetClear(s) ==
    /\ At(s, "reset", "clear")
    /\ cache' = NoEntry
    /\ pc' = [pc EXCEPT ![s] = Idle]
    /\ UNCHANGED <<file, lock, ldf, lrow, done, must, result, kioskVars>>

---------------------------------------------------------------------------
(* The kiosk session: one pass of the script per widget event or st.rerun() *)

Fields == {"name_input", "username_input", "badge_input", "note_input"}

\* session state as the ss.setdefault calls leave it; effective_shift is set by
\* the first pass, from the clock
InitSession ==
    [trigger_ring |-> FALSE, effective_shift |-> "unset", active_field |-> "badge_input",
     name_input |-> <<>>, username_input |-> <<>>, badge_input |-> <<>>, note_input |-> <<>>,
     caps_on |-> FALSE, symbols_on |-> FALSE, last_photo_bytes |-> FALSE, is_admin |-> FALSE]

InitWidgets == [photo |-> FALSE, mode |-> "Auto"]

\* a pass that showed no message and appended nothing.  seq: flips with every
\* pass; store: the kind of the file when the pass began; requested: the pass was
\* asked to ring (the Ring button, or trigger_ring pending); key: the value of
\* the keyboard button, or the field of the "Type here" button, whose click
\* started the pass ("none": another event);
\* raced: the Ring button was clicked while trigger_ring was pending;
\* dashboard: the pass ran on into the "with dashboard_tab:" block
Quiet ==
    [seq |-> 0, key |-> "none", exception |-> "none", rendered |-> "all", rerun |-> TRUE,
     store |-> "missing", requested |-> FALSE, should_ring |-> FALSE, error |-> "none", success |-> FALSE, warning |-> FALSE,
     appended |-> FALSE, row |-> NoRow, reset |-> FALSE, raced |-> FALSE,
     dashboard |-> FALSE]

\* before the first pass: nothing is rendered, the first run is due
InitUi == [Quiet EXCEPT !.rendered = "none"]

SPECIALS ==
    [SPACE |-> " ", BACK |-> "<BACK>", CLEAR |-> "<CLEAR>", CAPS |-> "<CAPS>",
     SYM |-> "<SYM>"]

ALPHA_ROWS ==
    {"1", "2", "3", "4", "5", "6", "7", "8", "9", "0",
     "q", "w", "e", "r", "t", "y", "u", "i", "o", "p",
     "a", "s", "d", "f", "g", "h", "j", "k", "l",
     "z", "x", "c", "v", "b", "n", "m"}

EXTRA_KEYS == {"@", ".", "-", "_", "/"}

SYMBOL_ROWS ==
    {"!", "@", "#", "$", "%", "^", "&", "*", "(", ")",
     "~", "`", "|", "\\", "/", "?",
     "[", "]", "{", "}", "<", ">",
     ":", ";", "\"", "'", ".", ",", "+"}

SYMBOL_EXTRA == {"=", "-", "_", "+"}

\* str.lower() and str.upper() over the letters of the keyboard
Lower == <<"a", "b", "c", "d", "e", "f", "g", "h", "i", "j", "k", "l", "m",
           "n", "o", "p", "q", "r", "s", "t", "u", "v", "w", "x", "y", "z">>

Upper == <<"A", "B", "C", "D", "E", "F", "G", "H", "I", "J", "K", "L", "M",
           "N", "O", "P", "Q", "R", "S", "T", "U", "V", "W", "X", "Y", "Z">>

isalpha(ch) == \E i \in 1..Len(Lower) : ch = Lower[i] \/ ch = Upper[i]

LetterIndex(ch) == CHOOSE i \in 1..Len(Lower) : ch = Lower[i] \/ ch = Upper[i]

upper(ch) == IF isalpha(ch) THEN Upper[LetterIndex(ch)] ELSE ch

lower(ch) == IF isalpha(ch) THEN Lower[LetterIndex(ch)] ELSE ch

\* press_key with the Caps layer never applied
press_key_caps_ignored(s, val) ==
    LET target_key == s.active_field
        current == s[target_key]
    IN  IF val = SPECIALS.CAPS THEN [s EXCEPT !.caps_on = ~s.caps_on]
        ELSE IF val = SPECIALS.SYM THEN [s EXCEPT !.symbols_on = ~s.symbols_on]
        ELSE IF val = SPECIALS.BACK THEN [s EXCEPT ![target_key] = Front(current)]
        ELSE IF val = SPECIALS.CLEAR THEN [s EXCEPT ![target_key] = <<>>]
        ELSE LET ch == val
             IN  [s EXCEPT ![target_key] = current \o <<ch>>]

\* press_key whose BACK empties the field
press_key_back_empties(s, val) ==
    LET target_key == s.active_field
        current == s[target_key]
    IN  IF val = SPECIALS.CAPS THEN [s EXCEPT !.caps_on = ~s.caps_on]
        ELSE IF val = SPECIALS.SYM THEN [s EXCEPT !.symbols_on = ~s.symbols_on]
        ELSE IF val = SPECIALS.BACK THEN [s EXCEPT ![target_key] = <<>>]
        ELSE IF val = SPECIALS.CLEAR THEN [s EXCEPT ![target_key] = <<>>]
        ELSE LET ch == IF ~s.symbols_on /\ isalpha(val)
                       THEN (IF s.caps_on THEN upper(val) ELSE lower(val))
                       ELSE val
             IN  [s EXCEPT ![target_key] = current \o <<ch>>]

\* press_key whose CLEAR empties the four fields
press_key_clear_form(s, val) ==
    LET target_key == s.active_field
        current == s[target_key]
    IN  IF val = SPECIALS.CAPS THEN [s EXCEPT !.caps_on = ~s.caps_on]
        ELSE IF val = SPECIALS.SYM THEN [s EXCEPT !.symbols_on = ~s.symbols_on]
        ELSE IF val = SPECIALS.BACK THEN [s EXCEPT ![target_key] = Front(current)]
        ELSE IF val = SPECIALS.CLEAR THEN [s EXCEPT !.name_input = <<>>, !.username_input = <<>>,
                                                   !.badge_input = <<>>, !.note_input = <<>>]
        ELSE LET ch == IF ~s.symbols_on /\ isalpha(val)
                       THEN (IF s.caps_on THEN upper(val) ELSE lower(val))
                       ELSE val
             IN  [s EXCEPT ![target_key] = current \o <<ch>>]

\* press_key typing into the Badge field whatever the active field
press_key_into_badge(s, val) ==
    LET target_key == "badge_input"
        current == s[target_key]
    IN  IF val = SPECIALS.CAPS THEN [s EXCEPT !.caps_on = ~s.caps_on]
        ELSE IF val = SPECIALS.SYM THEN [s EXCEPT !.symbols_on = ~s.symbols_on]
        ELSE IF val = SPECIALS.BACK THEN [s EXCEPT ![target_key] = Front(current)]
        ELSE IF val = SPECIALS.CLEAR THEN [s EXCEPT ![target_key] = <<>>]
        ELSE LET ch == IF ~s.symbols_on /\ isalpha(val)
                       THEN (IF s.caps_on THEN upper(val) ELSE lower(val))
                       ELSE val
             IN  [s EXCEPT ![target_key] = current \o <<ch>>]

\* press_key(val), the on_click callback of every keyboard button
press_key(s, val) ==
    LET target_key == s.active_field
        current == s[target_key]
    IN  IF val = SPECIALS.CAPS THEN [s EXCEPT !.caps_on = ~s.caps_on]
        ELSE IF val = SPECIALS.SYM THEN [s EXCEPT !.symbols_on = ~s.symbols_on]
        ELSE IF val = SPECIALS.BACK THEN [s EXCEPT ![target_key] = Front(current)]
        ELSE IF val = SPECIALS.CLEAR THEN [s EXCEPT ![target_key] = <<>>]
        ELSE LET ch == IF ~s.symbols_on /\ isalpha(val)
                       THEN (IF s.caps_on THEN upper(val) ELSE lower(val))
                       ELSE val
             IN  [s EXCEPT ![target_key] = current \o <<ch>>]

\* set_target that also switches the Caps layer off
set_target_caps_off(s, key_name) == [s EXCEPT !.active_field = key_name, !.caps_on = FALSE]

\* set_target(key_name), the on_click callback of the "Type here" buttons; the
\* "Keyboard target" radio assigns ss.active_field the same way
set_target(s, key_name) == [s EXCEPT !.active_field = key_name]

\* the values the keyboard's buttons pass to press_key in the layer drawn
KeysDrawn(s) ==
    {SPECIALS.CAPS, SPECIALS.SYM, SPECIALS.CLEAR, SPECIALS.BACK, SPECIALS.SPACE}
        \cup (IF s.symbols_on THEN SYMBOL_ROWS \cup SYMBOL_EXTRA
              ELSE ALPHA_ROWS \cup EXTRA_KEYS)

\* every value a keyboard button passes to press_key
AllKeys ==
    {SPECIALS.CAPS, SPECIALS.SYM, SPECIALS.CLEAR, SPECIALS.BACK, SPECIALS.SPACE}
        \cup SYMBOL_ROWS \cup SYMBOL_EXTRA \cup ALPHA_ROWS \cup EXTRA_KEYS

\* the controls among them: every other value is a character to type
Controls == {SPECIALS.CAPS, SPECIALS.SYM, SPECIALS.CLEAR, SPECIALS.BACK}

\* on_badge_scanned() measuring the badge as typed
on_badge_scanned_raw(s) ==
    IF Len(s.badge_input) >= 5 THEN [s EXCEPT !.trigger_ring = TRUE] ELSE s

\* on_badge_scanned(), the on_change callback of the Badge input
on_badge_scanned(s) ==
    IF Len(strip(s.badge_input)) >= 5 THEN [s EXCEPT !.trigger_ring = TRUE] ELSE s

missing_all(s) ==
    /\ strip(s.name_input) = <<>>
    /\ strip(s.username_input) = <<>>
    /\ strip(s.badge_input) = <<>>

\* the reference os.path.join(PHOTOS_DIR, f"{ts}_{ident}.jpg") of a saved photo
photo_file == <<"photos/", "ts_ident", ".jpg">>

\* photo_path after the "Save photo if captured" block; the write fails when pf
photo_path(s, pf) == IF s.last_photo_bytes /\ ~pf THEN photo_file ELSE <<>>

row_dict(s, t, pf) ==
    [timestamp |-> isoformat(t),
     name |-> strip(s.name_input),
     username |-> strip(s.username_input),
     badge |-> strip(s.badge_input),
     note |-> strip(s.note_input),
     shift |-> <<s.effective_shift>>,
     photo |-> photo_path(s, pf)]

\* the ring handler with the photo check ahead of the identifying-data check
RingHandlerPhotoFirst(s, ring_clicked, pf) ==
    LET should_ring == ring_clicked \/ s.trigger_ring
    IN  IF ~should_ring
        THEN [should_ring |-> FALSE, error |-> "none", success |-> FALSE,
              warning |-> FALSE, append |-> FALSE]
        ELSE IF REQUIRE_PHOTO /\ ~s.last_photo_bytes
        THEN [should_ring |-> TRUE, error |-> "photo required", success |-> FALSE,
              warning |-> FALSE, append |-> FALSE]
        ELSE IF missing_all(s)
        THEN [should_ring |-> TRUE, error |-> "no identifying data", success |-> FALSE,
              warning |-> FALSE, append |-> FALSE]
        ELSE [should_ring |-> TRUE, error |-> "none", success |-> TRUE,
              warning |-> s.last_photo_bytes /\ pf, append |-> TRUE]

\* the ring handler asked to ring by a badge of five characters still in the
\* field, not only by its change
RingHandlerBadgeHeld(s, ring_clicked, pf) ==
    LET should_ring == ring_clicked \/ s.trigger_ring \/ Len(strip(s.badge_input)) >= 5
    IN  IF ~should_ring
        THEN [should_ring |-> FALSE, error |-> "none", success |-> FALSE,
              warning |-> FALSE, append |-> FALSE]
        ELSE IF missing_all(s)
        THEN [should_ring |-> TRUE, error |-> "no identifying data", success |-> FALSE,
              warning |-> FALSE, append |-> FALSE]
        ELSE IF REQUIRE_PHOTO /\ ~s.last_photo_bytes
        THEN [should_ring |-> TRUE, error |-> "photo required", success |-> FALSE,
              warning |-> FALSE, append |-> FALSE]
        ELSE [should_ring |-> TRUE, error |-> "none", success |-> TRUE,
              warning |-> s.last_photo_bytes /\ pf, append |-> TRUE]

\* the ring handler up to the append_log call: what it shows and whether it appends
RingHandler(s, ring_clicked, pf) ==
    LET should_ring == ring_clicked \/ s.trigger_ring
    IN  IF ~should_ring
        THEN [should_ring |-> FALSE, error |-> "none", success |-> FALSE,
              warning |-> FALSE, append |-> FALSE]
        ELSE IF missing_all(s)
        THEN [should_ring |-> TRUE, error |-> "no identifying data", success |-> FALSE,
              warning |-> FALSE, append |-> FALSE]
        ELSE IF REQUIRE_PHOTO /\ ~s.last_photo_bytes
        THEN [should_ring |-> TRUE, error |-> "photo required", success |-> FALSE,
              warning |-> FALSE, append |-> FALSE]
        ELSE [should_ring |-> TRUE, error |-> "none", success |-> TRUE,
              warning |-> s.last_photo_bytes /\ pf, append |-> TRUE]

\* the end of a ring that was appended, with the form emptied as well
ring_done_clears(s) ==
    [s EXCEPT !.trigger_ring = FALSE, !.name_input = <<>>, !.username_input = <<>>,
              !.badge_input = <<>>, !.note_input = <<>>]

\* the end of a ring that was appended, with trigger_ring left as it was
ring_done_keeps(s) == s

\* ss.trigger_ring = False, the end of a ring that was appended
ring_done(s) == [s EXCEPT !.trigger_ring = FALSE]

\* append_log(row_dict) run by one session alone: the store and cache it leaves
append_log(row) ==
    [file |-> to_csv(AddRow(load_log, row)), cache |-> NoEntry]

\* append_log(row_dict) when to_csv raises: at open ("open": the file is as it
\* was) or after it was truncated ("write"); load_log.clear() is not reached
append_log_failed(io) ==
    [file |-> IF io = "open" THEN file ELSE Unreadable, cache |-> Entry(load_log)]

\* the "Recent rings" expander: load_log() over store f and cache entry c
RecentRings(f, c) == IF c.hit THEN c ELSE Entry(ReadStore(f))

\* ss.effective_shift = detect_shift() if mode == "Auto" else mode
EffectiveShift(mode, t) == IF mode = "Auto" THEN detect_shift(t) ELSE mode

\* the "Reset log (start fresh)" button over store f and cache entry c
ResetLog(f, c) ==
    IF f.kind # "missing" THEN [file |-> Missing, cache |-> NoEntry]
    ELSE [file |-> f, cache |-> c]

\* `_time.sleep(1); st.rerun()`, the last statements of the kiosk tab block:
\* no condition guards them, and st.rerun() raises out of the script
live_clock_rerun == TRUE

\* One pass of the script.  s0: session state after the event's callback;
\* w: the widget values; ring_clicked: the Ring button; btn: the sidebar button
\* of this pass; io: how to_csv fares; pf: the photo write fails.
Script(s0, w, ring_clicked, btn, io, pf) ==
    IF w.photo
    THEN \* line 198 reads ss before line 210 binds it: NameError ends the pass
         /\ ss' = s0
         /\ widgets' = w
         /\ ui' = [Quiet EXCEPT !.seq = 1 - ui.seq, !.exception = "NameError",
                                !.rendered = "camera", !.rerun = FALSE,
                                !.store = file.kind,
                                !.requested = (ring_clicked \/ s0.trigger_ring),
                                !.raced = (ring_clicked /\ s0.trigger_ring)]
         /\ UNCHANGED <<file, cache, pinned>>
    ELSE
    LET s1 == IF s0.effective_shift = "unset"
              THEN [s0 EXCEPT !.effective_shift = detect_shift(now)] ELSE s0
        ring == RingHandler(s1, ring_clicked, pf)
        row == row_dict(s1, now, pf)
        shown == [Quiet EXCEPT !.seq = 1 - ui.seq, !.store = file.kind,
                               !.key = IF btn \in AllKeys \cup Fields THEN btn ELSE "none",
                               !.requested = ring.should_ring,
                               !.should_ring = ring.should_ring,
                               !.error = ring.error, !.success = ring.success,
                               !.warning = ring.warning,
                               !.raced = (ring_clicked /\ s1.trigger_ring),
                               !.rerun = live_clock_rerun,
                               !.dashboard = ~live_clock_rerun]
    IN  IF ring.append /\ io # "ok"
        THEN \* append_log raises after st.success: the pass ends at line 371
             /\ ss' = s1
             /\ widgets' = w
             /\ file' = append_log_failed(io).file
             /\ cache' = append_log_failed(io).cache
             /\ ui' = [shown EXCEPT !.exception = "OSError", !.rendered = "kiosk",
                                    !.rerun = FALSE, !.dashboard = FALSE]
             /\ UNCHANGED pinned
        ELSE
        LET st1 == IF ring.append THEN append_log(row) ELSE [file |-> file, cache |-> cache]
            s2 == IF ring.append THEN ring_done(s1) ELSE s1
            c2 == RecentRings(st1.file, st1.cache)
            s3 == IF ~s2.is_admin /\ btn = "signin_ok" THEN [s2 EXCEPT !.is_admin = TRUE]
                  ELSE s2
            done1 == [shown EXCEPT !.appended = ring.append,
                                   !.row = IF ring.append THEN row ELSE NoRow]
        IN  IF s2.is_admin /\ btn = "signout"
            THEN \* ss.is_admin = False; st.rerun()
                 /\ ss' = [s2 EXCEPT !.is_admin = FALSE]
                 /\ widgets' = [w EXCEPT !.mode = "Auto"]
                 /\ file' = st1.file
                 /\ cache' = c2
                 /\ ui' = [done1 EXCEPT !.rendered = "kiosk", !.rerun = TRUE,
                                        !.dashboard = FALSE]
                 /\ UNCHANGED pinned
            ELSE IF s3.is_admin
            THEN LET st2 == IF btn = "reset" THEN ResetLog(st1.file, c2)
                            ELSE [file |-> st1.file, cache |-> c2]
                 IN  /\ ss' = [s3 EXCEPT !.effective_shift = EffectiveShift(w.mode, now)]
                     /\ pinned' = IF w.mode = "Auto" THEN "none" ELSE w.mode
                     /\ widgets' = w
                     /\ file' = st2.file
                     /\ cache' = st2.cache
                     /\ ui' = [done1 EXCEPT !.reset = (btn = "reset")]
            ELSE /\ ss' = s3
                 /\ widgets' = w
                 /\ file' = st1.file
                 /\ cache' = c2
                 /\ ui' = done1
                 /\ UNCHANGED pinned

\* outcomes of to_csv and of the photo write that a pass may meet
IoOutcomes == {"ok", "open", "write"}

\* the photo write can fail only when there is a photo to write, and to_csv
\* only when the ring handler reaches append_log
PhotoOutcomes(s0) == IF s0.last_photo_bytes THEN BOOLEAN ELSE {FALSE}

IoFor(s0, w, ring_clicked) ==
    IF ~w.photo /\ RingHandler(s0, ring_clicked, FALSE).append THEN IoOutcomes ELSE {"ok"}

\* a pass, left out of the model when it would append to a store of MaxLog rows
Pass(s0, w, ring_clicked, btn) ==
    /\ (~w.photo /\ RingHandler(s0, ring_clicked, FALSE).append)
           => Len(load_log.rows) < MaxLog
    /\ \E io \in IoFor(s0, w, ring_clicked), pf \in PhotoOutcomes(s0) :
           Script(s0, w, ring_clicked, btn, io, pf)
    /\ UNCHANGED <<lock, logVars, now, REQUIRE_PHOTO, probe, dash>>

\* the widgets below the camera were drawn by the last pass
KioskDrawn == ui.rendered \in {"kiosk", "all"}

\* the sidebar was drawn by the last pass
SidebarDrawn == ui.rendered = "all"

\* st.rerun(): the first run, the one-second clock tick, or the rerun after sign-out
Rerun ==
    /\ ui.rerun
    /\ Pass(ss, widgets, FALSE, "none")

\* the Ring button
RingClick ==
    /\ KioskDrawn
    /\ Pass(ss, widgets, TRUE, "none")

\* the visitor (or the badge scanner) changes the text of an input; the Badge
\* input calls on_badge_scanned
EditField(f, v) ==
    /\ KioskDrawn
    /\ v # ss[f]
    /\ LET typed == [ss EXCEPT ![f] = v]
           s0 == IF f = "badge_input" THEN on_badge_scanned(typed) ELSE typed
       IN  Pass(s0, widgets, FALSE, "none")

\* characters typed into the four fields together
TotalLen(s) ==
    Len(s.name_input) + Len(s.username_input) + Len(s.badge_input) + Len(s.note_input)

\* a button of the on-screen keyboard
PressKey(val) ==
    /\ KioskDrawn
    /\ val \in KeysDrawn(ss)
    /\ Pass(press_key(ss, val), widgets, FALSE, val)

\* a "Type here" button, of the active field or of another
SetTarget(key_name) ==
    /\ KioskDrawn
    /\ Pass(set_target(ss, key_name), widgets, FALSE, key_name)

\* the camera input takes a photo
TakePhoto ==
    /\ ui.rendered # "none"
    /\ ~widgets.photo
    /\ Pass(ss, [widgets EXCEPT !.photo = TRUE], FALSE, "none")

\* the camera input's photo is cleared
ClearPhoto ==
    /\ widgets.photo
    /\ Pass(ss, [widgets EXCEPT !.photo = FALSE], FALSE, "none")

\* the login form is submitted; ok: u == ADMIN_USER and p == ADMIN_PASS
SignIn(ok) ==
    /\ SidebarDrawn
    /\ ~ss.is_admin
    /\ Pass(ss, widgets, FALSE, IF ok THEN "signin_ok" ELSE "signin_bad")

SignOut ==
    /\ SidebarDrawn
    /\ ss.is_admin
    /\ Pass(ss, widgets, FALSE, "signout")

\* the admin's "Shift mode" radio
SetMode(m) ==
    /\ SidebarDrawn
    /\ ss.is_admin
    /\ m # widgets.mode
    /\ Pass(ss, [widgets EXCEPT !.mode = m], FALSE, "none")

\* the admin's "Reset log (start fresh)" button
ResetClick ==
    /\ SidebarDrawn
    /\ ss.is_admin
    /\ Pass(ss, widgets, FALSE, "reset")

\* the wall clock reaches the next shift boundary
ClockTimes == {_t(SHIFT_DEFS[i][j]) : i \in 1..Len(SHIFT_DEFS), j \in {2, 3}}

NextTime(t) ==
    IF \E u \in ClockTimes : u > t
    THEN CHOOSE u \in ClockTimes : u > t /\ \A x \in ClockTimes : x > t => u <= x
    ELSE CHOOSE u \in ClockTimes : \A x \in ClockTimes : u <= x

ClockAdvance ==
    /\ now' = NextTime(now)
    /\ UNCHANGED <<storeVars, logVars, ss, widgets, REQUIRE_PHOTO, pinned, ui, probe, dash>>

\* the store is deleted, truncated to zero bytes or replaced from outside
ExternalDelete ==
    /\ file.kind # "missing"
    /\ file' = Missing
    /\ UNCHANGED <<cache, lock, logVars, kioskVars>>

ExternalTruncate ==
    /\ file.kind = "csv"
    /\ file' = Unreadable
    /\ UNCHANGED <<cache, lock, logVars, kioskVars>>

\* a log the earlier draft wrote: one ring, no photo column
LegacyFile ==
    [kind |-> "csv", cols |-> legacy_cols,
     rows |-> << [c \in legacy_cols |-> RowOf(<<"b", "o", "b">>)[c]] >>]

ExternalLegacy ==
    /\ file.kind = "missing"
    /\ file' = LegacyFile
    /\ UNCHANGED <<cache, lock, logVars, kioskVars>>

\* streamlit run: the server starts over a store left by an earlier run, with
\* an empty cache and a fresh session
Restart ==
    /\ ui.rendered # "none"
    /\ cache' = NoEntry
    /\ ss' = InitSession
    /\ widgets' = InitWidgets
    /\ pinned' = "none"
    /\ ui' = InitUi
    /\ UNCHANGED <<file, lock, logVars, now, REQUIRE_PHOTO, probe, dash>>

\* detect_shift(now) is called: for name, s, e in SHIFT_DEFS over probe.defs
Detect ==
    /\ probe.out = "unset"
    /\ probe' = [probe EXCEPT !.out = detect_shift_in(probe.defs, probe.t)]
    /\ UNCHANGED <<storeVars, logVars, ss, widgets, now, REQUIRE_PHOTO, pinned, ui, dash>>

---------------------------------------------------------------------------
(* The dashboard's query *)

\* Series.astype(str) of one cell: NaN becomes the text "nan"
astype_str(c) ==
    CASE c.t = "str" -> c.v
      [] c.t = "nan" -> <<"n", "a", "n">>
      [] c.t = "int" -> c.v
      [] c.t = "flt" -> c.v \o <<".", "0">>

\* Series.str.lower() and str.lower() of one text
str_lower(t) == [i \in 1..Len(t) |-> lower(t[i])]

\* Series.str.contains(q, na=False) of one text: q is a regular expression,
\* here of literal characters and ".", which matches any character
str_contains(t, q) ==
    \E k \in 0..(Len(t) - Len(q)) : \A j \in 1..Len(q) : q[j] = "." \/ t[k + j] = q[j]

\* pd.to_datetime(..., errors="coerce") and .dt.date of one timestamp cell: the
\* day of a text "<d>T<HH:MM>", NaT for anything else
to_date(c) ==
    IF c.t = "str" /\ Len(c.v) >= 2 /\ IsDigit(c.v[1]) /\ c.v[2] = "T"
    THEN <<DigitVal(c.v[1])>> ELSE <<>>

\* fdf of the dashboard: the index of the rows of df kept by the date range dr,
\* the shift names and the search text
dashboard_filter(df, dr, shifts, query) ==
    LET all == 1..Len(df.rows)
        by_date == IF Len(dr) = 2
                   THEN {i \in all : LET d == to_date(df.rows[i].timestamp)
                                     IN  d # <<>> /\ d[1] >= dr[1] /\ d[1] <= dr[2]}
                   ELSE all
        by_shift == IF shifts # {}
                    THEN {i \in by_date : \E n \in shifts : df.rows[i].shift = StrCell(<<n>>)}
                    ELSE by_date
        q == str_lower(query)
        hit(c) == str_contains(str_lower(astype_str(c)), q)
    IN  IF query # <<>>
        THEN {i \in by_shift : \/ hit(df.rows[i].name) \/ hit(df.rows[i].username)
                               \/ hit(df.rows[i].badge) \/ hit(df.rows[i].note)}
        ELSE by_shift

\* the frame append_log leaves in the store for the rows written one by one,
\* as load_log() reads it back
LoggedFrame(events) ==
    ReadStore(to_csv([cols |-> cols,
                      rows |-> [i \in 1..Len(events) |->
                                  [c \in cols |-> StrCell(events[i][c])]]]))

\* the dashboard block filters the log by the widgets' values
RunQuery ==
    /\ dash.state = "asked"
    /\ dash' = [dash EXCEPT !.state = "answered",
                            !.out = dashboard_filter(dash.df, dash.dr, dash.shifts,
                                                     dash.query)]
    /\ UNCHANGED <<storeVars, logVars, ss, widgets, now, REQUIRE_PHOTO, pinned, ui, probe>>

---------------------------------------------------------------------------
(* Specifications *)

InitStore == file = Missing /\ cache = NoEntry /\ lock = 0

InitLog ==
    /\ pc = [s \in Sessions |-> Idle]
    /\ ldf = [s \in Sessions |-> EmptyFrame]
    /\ lrow = [s \in Sessions |-> NoRow]
    /\ done = {}
    /\ must = [s \in Sessions |-> {}]
    /\ result = [s \in Sessions |-> NoResult]

\* no dashboard query under test
NoDash ==
    [events |-> <<>>, df |-> EmptyFrame, dr |-> <<>>, shifts |-> {}, query |-> <<>>,
     state |-> "none", out |-> {}]

\* no call of detect_shift under test
NoProbe == [defs |-> SHIFT_DEFS, t |-> 0, out |-> "none"]

\* minutes in a day
DayMinutes == 24 * 60

\* the window boundaries tried: midnight and the boundaries of SHIFT_DEFS
WindowTimes == {0} \cup ClockTimes

\* the times of day tried on every window list: each boundary, the minute
\* before it and the minute after it
ProbeTimes ==
    {(u + d + DayMinutes) % DayMinutes : u \in WindowTimes, d \in {-1, 0, 1}}

WindowNames == <<"W1", "W2", "W3", "W4">>

\* every list of up to MaxWindows windows over WindowTimes, as SHIFT_DEFS
\* writes one: (name, "HH:MM", "HH:MM")
WindowLists ==
    UNION {{[i \in 1..n |-> <<WindowNames[i], isoformat(w[i][1]), isoformat(w[i][2])>>] :
               w \in [1..n -> WindowTimes \X WindowTimes]} : n \in 0..MaxWindows}

InitKiosk ==
    /\ ss = InitSession
    /\ widgets = InitWidgets
    /\ now = _t(SHIFT_DEFS[1][2])
    /\ pinned = "none"
    /\ ui = InitUi
    /\ probe = NoProbe
    /\ dash = NoDash

\* texts typed into the inputs
Samples ==
    [name_input |-> {<<>>, <<"n", "a", "n">>},
     username_input |-> {<<>>, <<" ", "j", "d">>},
     badge_input |-> {<<>>, <<" ">>, <<"0", "0", "1", "2", "3">>,
                      <<" ", "1", "2", "3", "4">>},
     note_input |-> {<<>>, <<"x", " ">>}]

\* Spec: the ring controller of one kiosk session
Init == InitStore /\ InitLog /\ InitKiosk /\ REQUIRE_PHOTO \in BOOLEAN

Next ==
    \/ Rerun
    \/ RingClick
    \/ \E f \in Fields : \E v \in Samples[f] : EditField(f, v)
    \/ TakePhoto
    \/ ClearPhoto

Spec == Init /\ [][Next]_vars

\* SpecLog: two sessions in the log's operations at once
InitL == InitStore /\ InitLog /\ InitKiosk /\ REQUIRE_PHOTO = FALSE

NextL ==
    \E s \in Sessions :
        \/ StartQuery(s)
        \/ \E row \in LogRows : StartAppend(s, row)
        \/ LoadLookup(s)
        \/ LoadCompute(s)
        \/ LoadStore(s)
        \/ AppendOpen(s)
        \/ AppendWrite(s)
        \/ AppendClear(s)
        \/ StartReset(s)
        \/ ResetRemove(s)
        \/ ResetClear(s)

SpecLog == InitL /\ [][NextL]_vars

\* SpecStore: one kiosk session over a store that is deleted, truncated or
\* replaced from outside, with the administrator's reset
NextS ==
    \/ Rerun
    \/ RingClick
    \/ \E f \in {"name_input", "badge_input"} : \E v \in Samples[f] : EditField(f, v)
    \/ \E ok \in BOOLEAN : SignIn(ok)
    \/ ResetClick
    \/ ExternalDelete
    \/ ExternalTruncate
    \/ ExternalLegacy
    \/ Restart

SpecStore == InitL /\ [][NextS]_vars

\* SpecShift: detect_shift over every minute of the day for SHIFT_DEFS, and
\* over the tried times for every window list
InitShift ==
    /\ InitStore /\ InitLog
    /\ ss = InitSession /\ widgets = InitWidgets /\ now = _t(SHIFT_DEFS[1][2])
    /\ pinned = "none" /\ ui = InitUi /\ REQUIRE_PHOTO = FALSE
    /\ dash = NoDash
    /\ \/ probe \in [defs : {SHIFT_DEFS}, t : 0..(DayMinutes - 1), out : {"unset"}]
       \/ probe \in [defs : WindowLists, t : ProbeTimes, out : {"unset"}]

NextD == Detect

SpecShift == InitShift /\ [][NextD]_vars

\* SpecKeys: one kiosk session at the on-screen keyboard
KeySample == Controls \cup {SPECIALS.SPACE, "a", "@"}

NextK ==
    \/ Rerun
    \/ \E val \in KeySample :
           /\ val \notin Controls => TotalLen(ss) < MaxText
           /\ PressKey(val)
    \/ \E key_name \in Fields : SetTarget(key_name)

SpecKeys == InitL /\ [][NextK]_vars

\* SpecBadge: one kiosk session whose Badge field is filled by the scanner and
\* by the on-screen keyboard
Scans == {<<>>, <<"1", "2", "3", "4">>, <<" ", "1", "2", "3">>}

BadgeKeys == {"5", SPECIALS.SPACE, SPECIALS.BACK, SPECIALS.CLEAR}

NextB ==
    \/ Rerun
    \/ \E v \in Scans : EditField("badge_input", v)
    \/ \E val \in BadgeKeys :
           /\ val \notin Controls => Len(ss.badge_input) < MaxBadge
           /\ PressKey(val)

SpecBadge == InitL /\ [][NextB]_vars

\* SpecClock: one kiosk session as the wall clock crosses the shift boundaries,
\* with the administrator's shift mode
NextC ==
    \/ Rerun
    \/ \E v \in {<<>>, <<"0", "0", "1", "2", "3">>} : EditField("badge_input", v)
    \/ ClockAdvance
    \/ \E ok \in BOOLEAN : SignIn(ok)
    \/ SignOut
    \/ \E m \in {"Auto", "Day", "Night"} : SetMode(m)

SpecClock == InitL /\ [][NextC]_vars

\* SpecRing: one kiosk session of the shipped configuration, whose rings come
\* from the Ring button and from the badge scanner
NextR ==
    \/ Rerun
    \/ RingClick
    \/ \E v \in {<<>>, <<"0", "0", "1", "2", "3">>} : EditField("badge_input", v)
    \/ \E v \in Samples["name_input"] : EditField("name_input", v)

SpecRing == InitL /\ [][NextR]_vars

\* SpecAdmin: one kiosk session with the administrator signing in and out; the
\* script ends every pass that reaches line 442 by st.rerun(), so a refresh
\* pass that is due is run
NextA ==
    \/ Rerun
    \/ ClockAdvance
    \/ \E v \in Samples["note_input"] : EditField("note_input", v)
    \/ \E ok \in BOOLEAN : SignIn(ok)
    \/ SignOut
    \/ \E m \in {"Auto", "Day", "Night"} : SetMode(m)

SpecAdmin == InitL /\ [][NextA]_vars /\ WF_vars(Rerun)

\* SpecQuery: the dashboard's filters over every log of up to MaxLog sampled
\* rings.  A ring is stamped "<d>T06:00" on day d, and has identifying data
IdTexts ==
    {t \in {<<>>, <<"A", "b">>} \X {<<>>, <<"c">>} \X {<<>>, <<"0", "7">>} :
        t[1] \o t[2] \o t[3] # <<>>}

QueryEvents ==
    {[timestamp |-> <<Digits[d + 1], "T">> \o isoformat(360), name |-> t[1],
      username |-> t[2], badge |-> t[3], note |-> <<>>, shift |-> <<sh>>, photo |-> <<>>] :
        d \in 1..3, t \in IdTexts, sh \in {"Day", "Unscheduled"}}

\* st.date_input: one date picked so far, or a range
DateRanges == {<<2>>, <<2, 3>>}

ShiftChoices == {{}, {"Day"}, {"Day", "Night"}}

Searches == {<<>>, <<"n", "a">>, <<"B", "c">>, <<"0", "7">>, <<".">>}

InitQuery ==
    /\ InitStore /\ InitLog
    /\ ss = InitSession /\ widgets = InitWidgets /\ now = _t(SHIFT_DEFS[1][2])
    /\ pinned = "none" /\ ui = InitUi /\ REQUIRE_PHOTO = FALSE
    /\ probe = NoProbe
    /\ \E n \in 0..MaxLog : \E e \in [1..n -> QueryEvents] :
       \E r \in DateRanges, sh \in ShiftChoices, q \in Searches :
           dash = [events |-> e, df |-> LoggedFrame(e), dr |-> r, shifts |-> sh,
                   query |-> q, state |-> "asked", out |-> {}]

NextQ == RunQuery

SpecQuery == InitQuery /\ [][NextQ]_vars

---------------------------------------------------------------------------
(* The claims *)

\* C1: a query that began after append(e) had returned observes e, whichever
\* session asks and however the sessions' load, write and invalidate steps
\* interleave.
C1_QuerySeesAppend ==
    \A s \in Sessions : result[s].set => result[s].missed = {}

\* C2: appends are atomic: once no session is inside an operation the store
\* holds the row of every append that returned, and no load ever read the
\* store while another session had it half-written.
C2_AppendAtomic ==
    /\ (\A s \in Sessions : pc[s] = Idle)
           => \A e \in done : Contains(ReadStore(file), e)
    /\ \A s \in Sessions : ~result[s].torn

\* the texts of a frame's rows, as to_csv would write them
Texts(df) == [i \in 1..Len(df.rows) |-> [c \in cols |-> CellText(df.rows[i][c])]]

\* C3: with no administrative reset, the log a query returns after a ring was
\* appended is the log it returned before with the new event added last:
\* nothing removed, reordered or altered.
C3_AppendOnly ==
    [][(ui'.seq # ui.seq /\ ui'.appended /\ ~ui'.reset)
           => Texts(load_log') = Append(Texts(load_log), ui'.row)]_vars

\* C4: after the administrator's reset the log a query returns is empty,
\* also when the store was already missing when the reset ran.
C4_ClearThenEmpty ==
    [][(ui'.seq # ui.seq /\ ui'.reset) => load_log'.rows = <<>>]_vars

\* C5: a store deleted or truncated from outside (not by a write of the last
\* pass that failed) reads as the empty log, not as a cached snapshot, and the
\* next append leaves a log of exactly one event.
C5_ExternalLossIsEmpty ==
    /\ (file.kind \in {"missing", "unreadable"} /\ ui.exception # "OSError")
           => load_log.rows = <<>>
    /\ (ui.appended /\ ui.store \in {"missing", "unreadable"} /\ ~ui.reset)
           => Len(load_log.rows) = 1

\* C6: a pass that reads an unreadable store gets the empty log and raises
\* nothing, and a ring that passes validation over an unreadable store is
\* still written, as the last row of the store.
C6_UnreadableStoreIsEmpty ==
    [][(ui'.seq # ui.seq /\ file.kind = "unreadable")
           => /\ (~cache.hit /\ ~ui'.should_ring)
                     => (ui'.exception = "none" /\ load_log'.rows = <<>>)
              /\ (ui'.should_ring /\ ui'.error = "none" /\ ui'.exception = "none"
                     /\ ~ui'.reset)
                     => /\ ui'.appended /\ ui'.success
                        /\ file'.kind = "csv"
                        /\ file'.rows # <<>>
                        /\ Last(file'.rows) = ui'.row]_vars

\* a ring was written over a store that could not be read
C6_Witness == ui.appended /\ ui.store = "unreadable" /\ ui.exception = "none"

\* an event names its visitor: one of name, username, badge is not empty
Identified(r) == \E c \in {"name", "username", "badge"} : CellText(r[c]) # <<>>

\* C7: a ring whose name, username and badge are all empty once trimmed is
\* rejected with "no identifying data" and appends nothing; so every event of
\* the log, in every reachable state, has a name, a username or a badge.
C7_IdentifiedOnly ==
    /\ (ui.should_ring /\ missing_all(ss))
           => (ui.error = "no identifying data" /\ ~ui.appended)
    /\ \A i \in 1..Len(load_log.rows) : Identified(load_log.rows[i])

\* C8: with REQUIRE_PHOTO set, a ring with identifying data and no captured
\* photo is rejected with "photo required" and leaves the store as it was;
\* a ring with neither is told of the missing identifying data, not the photo.
C8_PhotoRequired ==
    [][(ui'.seq # ui.seq /\ ui'.should_ring)
           => /\ (REQUIRE_PHOTO /\ ~missing_all(ss') /\ ~ss'.last_photo_bytes)
                     => /\ ui'.error = "photo required"
                        /\ ~ui'.success /\ ~ui'.appended
                        /\ file' = file
              /\ missing_all(ss')
                     => /\ ui'.error = "no identifying data"
                        /\ ~ui'.success /\ ~ui'.appended
                        /\ file' = file]_vars

\* a ring with identifying data and no photo was rejected for the photo
C8_Witness ==
    /\ REQUIRE_PHOTO /\ ui.should_ring /\ ~missing_all(ss)
    /\ ui.error = "photo required"

\* C9: the shift of an appended event is detect_shift of the instant of the
\* ring, unless the administrator pinned a shift, in which case it is that
\* shift; also for a session that no administrator touched and that stayed
\* open across a shift boundary.
C9_ShiftOfRingInstant ==
    [][(ui'.seq # ui.seq /\ ui'.appended)
           => ui'.row.shift = <<IF pinned # "none" THEN pinned
                                ELSE detect_shift(now)>>]_vars

\* C10: a pass asked to ring with identifying data and a captured photo ends
\* with one event appended, the write of the photo failing or not; when it
\* fails the event's photo reference is empty and a warning is shown.
C10_PhotoFailureNonFatal ==
    (widgets.photo /\ ui.requested /\ ~missing_all(ss) /\ ui.exception # "OSError")
        => /\ ui.appended
           /\ ui.warning => ui.row.photo = <<>>

\* C11: when the durable append fails during a ring, the pass shows no
\* success for that ring.
C11_AppendFailureReported == ui.exception = "OSError" => ~ui.success

\* what a ring leaves alone: the four fields, the keyboard target and layers
Kept(a, b) ==
    \A k \in Fields \cup {"active_field", "caps_on", "symbols_on"} : a[k] = b[k]

\* C12: a pass that appended a ring ends with no auto-ring pending and with
\* the four fields, active_field, caps_on and symbols_on as the event that
\* started the pass left them.
C12_RingKeepsForm ==
    [][/\ ((RingClick \/ Rerun) /\ ui'.appended)
             => (~ss'.trigger_ring /\ Kept(ss, ss'))
       /\ \A f \in Fields : \A v \in Samples[f] :
             (EditField(f, v) /\ ui'.appended)
                 => (~ss'.trigger_ring /\ Kept([ss EXCEPT ![f] = v], ss'))]_vars

\* a ring was appended from a form with a badge and a note in it
C12_Witness ==
    /\ ui.appended /\ ~ss.trigger_ring
    /\ ss.badge_input # <<>> /\ ss.note_input # <<>>

\* C13: a scan that sets the badge makes the pass see a pending auto-ring
\* exactly when one was pending already or the badge, trimmed, has at least 5
\* characters; a badge of trimmed length 4 or less leaves it as it was.
C13_ScanAutoTrigger ==
    [][\A v \in Samples.badge_input :
           EditField("badge_input", v)
               => (ui'.requested <=> (ss.trigger_ring \/ Len(strip(v)) >= 5))]_vars

\* a scan of five characters, four of them once trimmed, asked for no ring
C13_Witness ==
    /\ Len(ss.badge_input) >= 5 /\ Len(strip(ss.badge_input)) = 4
    /\ ~ui.requested /\ ~ss.trigger_ring /\ ui.rendered = "all"

\* C14: a key of the on-screen keyboard that changes the Badge field while it
\* is the active field and leaves it with at least 5 characters, trimmed, makes
\* the auto-ring pending.
C14_KeyPressAutoTrigger ==
    [][\A val \in BadgeKeys :
           (/\ PressKey(val)
            /\ ss.active_field = "badge_input"
            /\ ss'.badge_input # ss.badge_input
            /\ Len(strip(ss'.badge_input)) >= 5)
               => (ui'.requested \/ ss'.trigger_ring)]_vars

\* the window w = (name, start, end) holds t: t is one of the minutes from start
\* on, up to the minute before end, going round midnight when end < start
InWindow(w, t) ==
    ((t - _t(w[2]) + DayMinutes) % DayMinutes)
        < ((_t(w[3]) - _t(w[2]) + DayMinutes) % DayMinutes)

\* C15: detect_shift answers with the name of the first window, in the order
\* of the list, whose half-open interval holds t, and with "Unscheduled" when
\* none does or the list is empty.
C15_FirstWindowWins ==
    probe.out \notin {"none", "unset"}
        => LET hits == {i \in 1..Len(probe.defs) : InWindow(probe.defs[i], probe.t)}
           IN  IF hits = {} THEN probe.out = "Unscheduled"
               ELSE \E i \in hits : /\ \A j \in hits : i <= j
                                     /\ probe.out = probe.defs[i][1]

\* two windows hold the time tried and the first one was named
C15_Witness ==
    /\ Len(probe.defs) = 2
    /\ InWindow(probe.defs[1], probe.t) /\ InWindow(probe.defs[2], probe.t)
    /\ probe.out = probe.defs[1][1]

\* C16: with Day 06:00-17:00 and Night 17:30-04:00, detect_shift is "Night" on
\* [17:30, 24:00) and [00:00, 04:00), "Day" on [06:00, 17:00) and
\* "Unscheduled" on [04:00, 06:00) and [17:00, 17:30).
C16_OvernightWindow ==
    (probe.defs = SHIFT_DEFS /\ probe.out \notin {"none", "unset"})
        => probe.out =
              IF probe.t >= 17 * 60 + 30 \/ probe.t < 4 * 60 THEN "Night"
              ELSE IF probe.t >= 6 * 60 /\ probe.t < 17 * 60 THEN "Day"
              ELSE "Unscheduled"

\* at 04:00, with the configured windows, no shift was found
C16_Witness ==
    probe.defs = SHIFT_DEFS /\ probe.t = 4 * 60 /\ probe.out = "Unscheduled"

\* the kiosk input state: the fields, the keyboard target and layers, the
\* pending auto-ring
InputState(s) ==
    [k \in Fields \cup {"active_field", "caps_on", "symbols_on", "trigger_ring"} |-> s[k]]

\* the four field values
FieldValues(s) == [k \in Fields |-> s[k]]

\* C17: the Caps key pressed while symbols_on is true leaves caps_on and every
\* field as they were; pressed while symbols_on is false it flips caps_on and
\* changes no field.
C17_CapsIgnoredInSymbols ==
    [][PressKey(SPECIALS.CAPS)
           => /\ FieldValues(ss') = FieldValues(ss)
              /\ ss'.caps_on = (IF ss.symbols_on THEN ss.caps_on ELSE ~ss.caps_on)]_vars

\* the character a key is to add: a letter in the case the Caps layer asks
\* for while the symbol layer is off, any other value as it is
Expected(s, val) ==
    IF ~s.symbols_on /\ \E i \in 1..Len(Lower) : val \in {Lower[i], Upper[i]}
    THEN LET i == CHOOSE j \in 1..Len(Lower) : val \in {Lower[j], Upper[j]}
         IN  IF s.caps_on THEN Upper[i] ELSE Lower[i]
    ELSE val

\* the session after the keys of a sequence were pressed one after the other
RECURSIVE Typed(_, _)
Typed(s, keys) == IF keys = <<>> THEN s ELSE Typed(press_key(s, Head(keys)), Tail(keys))

\* C18: a character key adds exactly one character to the end of the active
\* field: a letter upper-cased under Caps and lower-cased otherwise while the
\* symbol layer is off, any other character (SPACE too) as it is, and every
\* character as it is while the symbol layer is on; "a", "b", "c", Caps, "d"
\* typed into an empty field give "abcD".
C18_TypeCharacter ==
    [][/\ \A val \in KeySample \ Controls :
              PressKey(val)
                  => ss'[ss.active_field] = ss[ss.active_field] \o <<Expected(ss, val)>>
       /\ \A val \in KeysDrawn(ss) \ Controls :
              press_key(ss, val)[ss.active_field]
                  = ss[ss.active_field] \o <<Expected(ss, val)>>
       /\ Typed(InitSession, <<"a", "b", "c", SPECIALS.CAPS, "d">>)[InitSession.active_field]
              = <<"a", "b", "c", "D">>]_vars

\* under Caps the key "a" was pressed and the active field ends with "A"
C18_Witness ==
    /\ ui.key = "a" /\ ss.caps_on /\ ~ss.symbols_on
    /\ ss[ss.active_field] # <<>> /\ Last(ss[ss.active_field]) = "A"

\* C19: BACK removes exactly the last character of the active field and does
\* nothing to an empty one; a character key followed by BACK gives the field
\* its earlier value.
C19_Backspace ==
    [][/\ PressKey(SPECIALS.BACK)
              => ss'[ss.active_field] =
                    (IF ss[ss.active_field] = <<>> THEN <<>>
                     ELSE SubSeq(ss[ss.active_field], 1, Len(ss[ss.active_field]) - 1))
       /\ \A val \in KeysDrawn(ss) \ Controls :
              press_key(press_key(ss, val), SPECIALS.BACK)[ss.active_field]
                  = ss[ss.active_field]]_vars

\* BACK was pressed and left one character of the active field
C19_Witness == ui.key = SPECIALS.BACK /\ Len(ss[ss.active_field]) = 1

\* C20: CLEAR empties the active field, and pressed on an empty active field
\* it leaves the fields, active_field, caps_on, symbols_on and the pending
\* auto-ring as they were.
C20_ClearIdempotent ==
    [][/\ PressKey(SPECIALS.CLEAR)
              => /\ ss'[ss.active_field] = <<>>
                 /\ ss[ss.active_field] = <<>> => InputState(ss') = InputState(ss)
       /\ press_key(press_key(ss, SPECIALS.CLEAR), SPECIALS.CLEAR)
              = press_key(ss, SPECIALS.CLEAR)]_vars

\* CLEAR was pressed on an empty active field while another field held text
C20_Witness ==
    /\ ui.key = SPECIALS.CLEAR /\ ss[ss.active_field] = <<>>
    /\ \E k \in Fields : ss[k] # <<>>

\* a text occurs in another as a run of consecutive characters
Occurs(q, t) == \E k \in 0..(Len(t) - Len(q)) : SubSeq(t, k + 1, k + Len(q)) = q

\* the ring e, as it was logged, satisfies every filter that was supplied
Satisfies(e, dr, shifts, query) ==
    /\ Len(dr) = 2 => (DigitVal(e.timestamp[1]) >= dr[1] /\ DigitVal(e.timestamp[1]) <= dr[2])
    /\ shifts # {} => \E n \in shifts : e.shift = <<n>>
    /\ query # <<>> => Occurs(str_lower(query),
                              str_lower(e.name \o e.username \o e.badge \o e.note))

\* C21: the dashboard's query returns exactly the logged rings that satisfy
\* every supplied filter: the day of the ring within the date range, ends
\* included; the shift among the chosen shift names; the search text, without
\* regard to case, inside name, username, badge and note joined.  A filter
\* that is not supplied restricts nothing.
C21_QueryFilters ==
    dash.state = "answered"
        => dash.out = {i \in 1..Len(dash.events) :
                          Satisfies(dash.events[i], dash.dr, dash.shifts, dash.query)}

\* C22: a ring attempt that is rejected leaves the log and the four field
\* values as they were, and a refresh pass that follows a rejected attempt,
\* with no new press of Ring and no new badge change, does not attempt the
\* ring again.
C22_RejectedNotRetried ==
    [][/\ ((Rerun \/ RingClick) /\ ui'.error # "none")
           => (file' = file /\ FieldValues(ss') = FieldValues(ss))
       /\ (Rerun /\ ui.error # "none") => ~ui'.should_ring]_vars

\* C23: from any state in which the administrator is signed in, a script pass
\* eventually runs the dashboard block and its query over the ring log; the
\* refresh loop of the kiosk tab does not cut every pass off before it.
C23_DashboardReached == ss.is_admin ~> ui.dashboard

\* C24: capturing a photo never keeps a pass from reaching the ring handler;
\* and a pass asked to ring with identifying data and a captured photo whose
\* write succeeds appends the event with a photo reference that is not empty.
C24_PhotoRingPersisted ==
    (widgets.photo /\ ui.rendered # "none")
        => /\ ui.exception # "NameError"
           /\ ui.rendered # "camera"
           /\ (ui.requested /\ ~missing_all(ss) /\ ~ui.warning /\ ui.exception = "none"
                   /\ ui.error = "none")
                  => (ui.appended /\ ui.row.photo # <<>>)

\* C25: a key press changes at most the value of the active field: the three
\* other fields and active_field are as before; the Caps and Symbols toggles
\* change no field value.
C25_KeyPressFrame ==
    [][\A val \in KeySample :
          PressKey(val)
              => /\ ss'.active_field = ss.active_field
                 /\ \A k \in Fields \ {ss.active_field} : ss'[k] = ss[k]
                 /\ val \in {SPECIALS.CAPS, SPECIALS.SYM}
                        => FieldValues(ss') = FieldValues(ss)]_vars

\* a character was typed into the Name field while the Badge field held text
C25_Witness ==
    /\ ui.key = "a"
    /\ ss.active_field = "name_input"
    /\ ss.name_input # <<>>
    /\ ss.badge_input # <<>>

\* C26: active_field is always one of the four fields, Badge at first; selecting
\* a field makes it the active field and changes nothing else of the session
\* or the log; selecting the field that is already active changes nothing.
C26_SelectField ==
    /\ ss.active_field = "badge_input"
    /\ [](ss.active_field \in Fields)
    /\ [][\A k \in Fields :
              SetTarget(k)
                  => /\ ss' = [ss EXCEPT !.active_field = k]
                     /\ file' = file
                     /\ k = ss.active_field => ss' = ss]_vars

\* the Note field was selected with the Caps layer on and text in the Badge field
C26_Witness ==
    /\ ui.key = "note_input"
    /\ ss.active_field = "note_input"
    /\ ss.caps_on
    /\ ss.badge_input # <<>>

\* C27: when the Ring button is pressed in a pass in which trigger_ring is
\* pending, the ring is handled once: a pass that accepts it and appends
\* without failure adds exactly one event to the log, and trigger_ring is
\* false afterwards.
C27_PressAndTriggerOnce ==
    [][(RingClick /\ ss.trigger_ring)
          => /\ ui'.raced
             /\ (ui'.error = "none" /\ ui'.exception = "none")
                    => /\ ui'.appended
                       /\ file'.kind = "csv"
                       /\ Len(file'.rows) = Len(load_log.rows) + 1
                       /\ ~ss'.trigger_ring]_vars

\* the Ring button was pressed with trigger_ring pending, and one event is in the log
C27_Witness ==
    /\ ui.raced
    /\ ui.appended
    /\ ~ss.trigger_ring
    /\ Len(file.rows) = 1

\* C28: once a ring is appended trigger_ring is false, and a refresh pass that
\* finds it false, with no press of Ring and no badge change, does not ask to
\* ring, appends nothing and leaves it false, although the badge in the field
\* still has five characters or more.
C28_NoRepeatOnRefresh ==
    /\ [](ui.appended => ~ss.trigger_ring)
    /\ [][(Rerun /\ ~ss.trigger_ring)
              => (file' = file /\ ~ui'.should_ring /\ ~ss'.trigger_ring)]_vars

\* a refresh pass ran after the ring of a scanned badge that is still in the field
C28_Witness ==
    /\ ui.rendered = "all" /\ ui.exception = "none"
    /\ ~ui.requested
    /\ ~ss.trigger_ring
    /\ Len(strip(ss.badge_input)) >= 5
    /\ file.kind = "csv" /\ Len(file.rows) = 1

=============================================================================
